---- MODULE Spec2Model ----
(***************************************************************************)
(* Model of src/main.py: the CrawlerThread worker (run, crawl,             *)
(* scroll_gradually, extract_products, download_images) and the MainWindow *)
(* handlers (start_crawling, stop_crawling, display_results,               *)
(* crawling_finished, show_error, export_to_excel).                        *)
(*                                                                         *)
(* Python values are encoded as sequences of tokens: a str is the sequence *)
(* of its characters (or of larger tokens where the code never looks       *)
(* inside them), None is the one-token sequence <<"<None>">> and an int    *)
(* read from JSON is <<"<int>", digits>>.                                   *)
(***************************************************************************)
EXTENDS Integers, Sequences, FiniteSets, TLC

\* ------------------------------------------------------------------ bounds
\* Largest number of anchors query_selector_all returns in the model.
MaxAnchors == 2
\* Largest number of runs started from the window in one behaviour.
MaxRuns == 2

\* ------------------------------------------------------- program constants
scroll_step == 800
max_scrolls == 100

\* ------------------------------------------------------------------ values
None == <<"<None>">>
PyInt(digits) == <<"<int>", digits>>
NA == <<"N", "/", "A">>
Empty == <<>>

\* isinstance(v, str)
IsPyStr(v) == v = <<>> \/ v[1] \notin {"<None>", "<int>"}
\* Python truthiness of a str-or-None value: `if v`
Truthy(v) == v # None /\ v # Empty
\* dict.get(key, default)
Get(d, key, default) == IF key \in DOMAIN d THEN d[key] ELSE default

\* s.startswith(prefix)
StartsWith(s, prefix) ==
    /\ Len(s) >= Len(prefix)
    /\ SubSeq(s, 1, Len(prefix)) = prefix

\* s[:n]
Prefix(s, n) == SubSeq(s, 1, IF Len(s) < n THEN Len(s) ELSE n)

\* token in s  (membership of one token of the attribute text)
Contains(s, tok) == \E i \in 1..Len(s) : s[i] = tok

RECURSIVE SeqMap(_, _, _)
\* s.replace(old, new) on a token sequence
SeqMap(s, old, new) ==
    IF s = <<>> THEN <<>>
    ELSE <<IF Head(s) = old THEN new ELSE Head(s)>> \o SeqMap(Tail(s), old, new)

\* ------------------------------------------------- JSON in data-log-body
QUOT == "&quot;"
DQ == "\""
PriceKey == "last_discount_price"
\* Tokens json.loads reads as a number.
NumberTokens == {"9900", "0"}
\* A token that may stand between two double quotes as the text of a string.
IsWord(t) == t \notin {"{", "}", DQ, ":", ",", QUOT}

ParseFail == [ok |-> FALSE, val |-> <<>>, next |-> 0]

\* A JSON string literal starting at token i.
ParseStr(t, i) ==
    IF i <= Len(t) /\ t[i] = DQ
    THEN IF i + 1 <= Len(t) /\ t[i + 1] = DQ
         THEN [ok |-> TRUE, val |-> Empty, next |-> i + 2]
         ELSE IF i + 2 <= Len(t) /\ IsWord(t[i + 1]) /\ t[i + 2] = DQ
              THEN [ok |-> TRUE, val |-> <<t[i + 1]>>, next |-> i + 3]
              ELSE ParseFail
    ELSE ParseFail

\* A JSON number, null or string starting at token i.
ParseScalar(t, i) ==
    IF i > Len(t) THEN ParseFail
    ELSE IF t[i] \in NumberTokens
         THEN [ok |-> TRUE, val |-> PyInt(t[i]), next |-> i + 1]
         ELSE IF t[i] = "null"
              THEN [ok |-> TRUE, val |-> None, next |-> i + 1]
              ELSE ParseStr(t, i)

RECURSIVE ParseMembers(_, _, _)
\* The members of a JSON object from token i on, up to the closing brace,
\* which must be the last token. acc holds the pairs read so far.
ParseMembers(t, i, acc) ==
    LET k == ParseStr(t, i) IN
    IF ~k.ok \/ k.next > Len(t) \/ t[k.next] # ":"
    THEN [kind |-> "error", d |-> <<>>]
    ELSE LET v == ParseScalar(t, k.next + 1) IN
         IF ~v.ok \/ v.next > Len(t)
         THEN [kind |-> "error", d |-> <<>>]
         ELSE IF t[v.next] = ","
              THEN ParseMembers(t, v.next + 1, Append(acc, <<k.val, v.val>>))
              ELSE IF t[v.next] = "}" /\ v.next = Len(t)
                   THEN [kind |-> "dict", d |-> Append(acc, <<k.val, v.val>>)]
                   ELSE [kind |-> "error", d |-> <<>>]

\* json.loads(text): a dict (as its key/value pairs in document order), another
\* JSON value, or a parse error.
JsonLoads(t) ==
    IF t = <<>> THEN [kind |-> "error", d |-> <<>>]
    ELSE IF t[1] = "{"
         THEN IF Len(t) = 2 /\ t[2] = "}"
              THEN [kind |-> "dict", d |-> <<>>]
              ELSE ParseMembers(t, 2, <<>>)
         ELSE LET s == ParseScalar(t, 1) IN
              IF s.ok /\ s.next = Len(t) + 1
              THEN [kind |-> "other", d |-> <<>>]
              ELSE [kind |-> "error", d |-> <<>>]

RECURSIVE DictGet(_, _, _)
\* dict.get(key, default) on the pairs of a parsed object (a repeated key
\* keeps its last value).
DictGet(d, key, default) ==
    IF d = <<>> THEN default
    ELSE IF d[Len(d)][1] = key THEN d[Len(d)][2]
         ELSE DictGet(SubSeq(d, 1, Len(d) - 1), key, default)

\* ------------------------------------------------------- Field Extractor
\* An anchor of the page is a record
\*   [href, data_log, has_name, name_text, has_price, price_text,
\*    has_img, src, data_src, data_original]
\* href, data_log and the three image attributes are a str or None
\* (get_attribute of a missing attribute); has_* tell whether query_selector
\* finds the element.

\* product['name'], lines 157-161
ResolveName(a) == IF a.has_name THEN a.name_text ELSE NA

\* Mutant of ResolvePrice: the payload is parsed without decoding &quot;.
ResolvePriceNoDecode(a) ==
    IF a.has_price THEN a.price_text
    ELSE IF Truthy(a.data_log) /\ Contains(a.data_log, PriceKey)
         THEN LET r == JsonLoads(a.data_log) IN
              IF r.kind = "dict" THEN DictGet(r.d, <<PriceKey>>, NA) ELSE NA
         ELSE NA

\* product['price'], lines 165-177
ResolvePrice(a) ==
    IF a.has_price THEN a.price_text
    ELSE IF Truthy(a.data_log) /\ Contains(a.data_log, PriceKey)
         THEN LET r == JsonLoads(SeqMap(a.data_log, QUOT, DQ)) IN
              IF r.kind = "dict" THEN DictGet(r.d, <<PriceKey>>, NA) ELSE NA
         ELSE NA

\* product['thumbnail'], lines 179-187
ResolveThumbnail(a) ==
    IF a.has_img
    THEN LET t1 == a.src
             t2 == IF ~Truthy(t1) THEN a.data_src ELSE t1
             t3 == IF ~Truthy(t2) THEN a.data_original ELSE t2
         IN  t3
    ELSE NA

\* The record built by one pass of the loop body, lines 152-189.
ExtractProduct(a, date) ==
    [url |-> a.href,
     name |-> ResolveName(a),
     price |-> ResolvePrice(a),
     thumbnail |-> ResolveThumbnail(a),
     registered_date |-> date]

\* --------------------------------------------------------- Image Fetcher
Origin == <<"https:", "/", "/", "www.11st.co.kr">>

\* Mutant of NormalizeUrl: the single slash is tested first.
NormalizeUrlSlashFirst(url) ==
    IF StartsWith(url, <<"/">>) THEN Origin \o url
    ELSE IF StartsWith(url, <<"/", "/">>) THEN <<"https:">> \o url
         ELSE url

\* The URL requests.get is called with, lines 212-216.
NormalizeUrl(url) ==
    IF StartsWith(url, <<"/", "/">>) THEN <<"https:">> \o url
    ELSE IF StartsWith(url, <<"/">>) THEN Origin \o url
         ELSE url

\* Characters for which c.isalnum() holds, among those the model uses.
Alnum == {"A", "B", "C", "N", "a", "b", "c", "0", "1", "2", "3"}

\* safe_name, line 220
SafeName(name) == SelectSeq(Prefix(name, 50), LAMBDA c : c \in Alnum \/ c \in {" ", "_"})

\* filename, line 221
Filename(idx, name) ==
    <<"thumbnails", "/", ToString(idx), "_">> \o SafeName(name) \o <<".jpg">>

\* Whether download_images tries to fetch the product's thumbnail, line 211.
HasThumbnail(product) ==
    /\ Truthy(Get(product, "thumbnail", None))
    /\ product.thumbnail # NA

\* product['thumbnail_local'] = filename, line 226
WithLocal(product, filename) ==
    [k \in DOMAIN product \cup {"thumbnail_local"} |->
        IF k = "thumbnail_local" THEN filename ELSE product[k]]

\* ------------------------------------------------------------ the inputs
\* datetime.now().strftime("%Y-%m-%d") during a run.
Dates == {<<"2026-11-06">>}

\* An anchor with every element present: a root-relative link, a name, a
\* price element and an image with a protocol-relative src.
AnchorFull ==
    [href |-> <<"/", "p", "1">>, data_log |-> None,
     has_name |-> TRUE, name_text |-> <<"A", "-", "1">>,
     has_price |-> TRUE, price_text |-> <<"9,900">>,
     has_img |-> TRUE, src |-> <<"/", "/", "cdn", "/", "a">>,
     data_src |-> None, data_original |-> None]

\* An anchor with nothing below it: no name, no price, no image.
AnchorBare ==
    [href |-> <<"/", "p", "2">>, data_log |-> None,
     has_name |-> FALSE, name_text |-> Empty,
     has_price |-> FALSE, price_text |-> Empty,
     has_img |-> FALSE, src |-> None,
     data_src |-> None, data_original |-> None]

AnchorKinds == {AnchorFull, AnchorBare}

\* Sequences over S of length at most n.
SeqsUpTo(S, n) == UNION {[1..k -> S] : k \in 0..n}

\* What query_selector_all may return.
Doms == SeqsUpTo(AnchorKinds, MaxAnchors)

\* Values document.body.scrollHeight may report.
PageHeights == {800, 1600}

\* ------------------------------------------------------------- the state
VARIABLES
    \* MainWindow
    start_btn, stop_btn, export_btn,  \* isEnabled() of the three buttons
    win_products,                     \* MainWindow.products
    result_table,                     \* rows of result_table
    sheet,                            \* workbook saved since the run started
    \* CrawlerThread
    pc,                               \* where the worker stands
    is_running,                       \* CrawlerThread.is_running
    thr_products,                     \* CrawlerThread.products
    browser,                          \* "none", "open", "closed"
    queue,                            \* signals emitted, not yet handled
    \* locals of crawl, scroll_gradually, extract_products, download_images
    products, product_links, idx,
    last_height, current_position, scroll_count,
    new_height,                       \* scroll_gradually's new_height (line 126)
    exc,                              \* str(e) of the exception in flight
    \* history of the current run
    run,                              \* runs started so far
    faults,                           \* steps of this run that raised
    emitted,                          \* signals this worker has emitted
    entered,                          \* the loops whose body was entered
    origin,                           \* origin[i]: position of products[i] in product_links
    seen,                             \* the checks that found is_running False
    fetched                           \* requests made by download_images, with their outcome

ui == <<start_btn, stop_btn, export_btn, win_products, result_table, sheet>>
scroll == <<last_height, current_position, scroll_count, new_height>>
loc == <<products, product_links, idx, last_height, current_position, scroll_count,
        new_height>>
hist == <<run, faults, emitted, entered, origin, seen, fetched>>
vars == <<start_btn, stop_btn, export_btn, win_products, result_table, sheet,
          pc, is_running, thr_products, browser, queue,
          products, product_links, idx, last_height, current_position,
          scroll_count, new_height, exc, run, faults, emitted, entered, origin, seen, fetched>>

NoSheet == [saved |-> FALSE, header |-> <<>>, rows |-> <<>>]

\* MainWindow.__init__ and init_ui: no worker yet.
Init ==
    /\ start_btn = TRUE /\ stop_btn = FALSE /\ export_btn = FALSE
    /\ win_products = <<>> /\ result_table = <<>> /\ sheet = NoSheet
    /\ pc = "idle" /\ is_running = TRUE /\ thr_products = <<>>
    /\ browser = "none" /\ queue = <<>>
    /\ products = <<>> /\ product_links = <<>> /\ idx = 0
    /\ last_height = 0 /\ current_position = 0 /\ scroll_count = 0 /\ new_height = 0
    /\ exc = "" /\ run = 0 /\ faults = {} /\ emitted = <<>>
    /\ entered = {} /\ origin = <<>> /\ seen = {} /\ fetched = <<>>

\* signal.emit(arg) from the worker: queued for the window's thread.
Emit(sig, arg) ==
    /\ queue' = Append(queue, [sig |-> sig, arg |-> arg])
    /\ emitted' = Append(emitted, [sig |-> sig, arg |-> arg])

\* A step raising: the exception is in flight to the handler at `to`.
Raise(site, to) ==
    /\ pc' = to
    /\ exc' = site
    /\ faults' = faults \cup {site}

\* QThread.isRunning()
IsThreadRunning == pc \notin {"idle", "done"}

\* ---------------------------------------------------- CrawlerThread.crawl
\* `if not self.is_running: await browser.close(); return` followed by the
\* `finally` of line 109 (lines 59-61, 66-68, 75-77, 83-85, 91-93).
CheckFlag(at, next) ==
    /\ pc = at
    /\ IF is_running
       THEN /\ pc' = next
            /\ UNCHANGED <<browser, seen>>
       ELSE /\ pc' = "run_finally"
            /\ browser' = "closed"
            /\ seen' = seen \cup {at}
    /\ UNCHANGED <<ui, is_running, thr_products, queue, loc, exc,
                   run, faults, emitted, entered, origin, fetched>>

\* Mutant of CrawlMayStart: the first check is missing.
CrawlMayStartAlways == TRUE

\* Line 45: if not self.is_running: return
CrawlMayStart == is_running

\* Lines 45-48: the first check, before anything is launched.
CrawlEnter ==
    /\ pc = "run"
    /\ pc' = IF CrawlMayStart THEN "playwright" ELSE "run_finally"
    /\ seen' = IF is_running THEN seen ELSE seen \cup {"run"}
    /\ UNCHANGED <<ui, is_running, thr_products, browser, queue, loc, exc,
                   run, faults, emitted, entered, origin, fetched>>

\* A step of crawl outside the try block (lines 50-56): on success the worker
\* moves on, on failure the exception leaves crawl for run's handler.
Outside(at, next, site, b) ==
    /\ pc = at
    /\ \/ pc' = next /\ browser' = b /\ UNCHANGED <<exc, faults>>
       \/ Raise(site, "run_except") /\ UNCHANGED browser
    /\ UNCHANGED <<ui, is_running, thr_products, queue, loc,
                   run, emitted, entered, origin, seen, fetched>>

\* Line 50: async with async_playwright() as p
EnterPlaywright == Outside("playwright", "launch", "playwright", browser)
\* Line 51: browser = await p.chromium.launch(headless=False)
Launch == Outside("launch", "new_context", "launch", "open")
\* Lines 52-55: context = await browser.new_context(...)
NewContext == Outside("new_context", "new_page", "new_context", browser)
\* Line 56: page = await context.new_page()
NewPage == Outside("new_page", "check59", "new_page", browser)

Check59 == CheckFlag("check59", "goto")

\* A step of crawl inside the try block that touches no variable of the
\* program: on failure the exception goes to the handler of line 105.
Inside(at, next, site) ==
    /\ pc = at
    /\ \/ pc' = next /\ UNCHANGED <<exc, faults>>
       \/ Raise(site, "crawl_except")
    /\ UNCHANGED <<ui, is_running, thr_products, browser, queue, loc,
                   run, emitted, entered, origin, seen, fetched>>

\* Mutant of Goto: a failed navigation is swallowed and crawl goes on.
GotoContinues ==
    /\ pc = "goto"
    /\ pc' = "check66"
    /\ \/ UNCHANGED <<exc, faults>>
       \/ exc' = "goto" /\ faults' = faults \cup {"goto"}
    /\ UNCHANGED <<ui, is_running, thr_products, browser, queue, loc,
                   run, emitted, entered, origin, seen, fetched>>

\* Lines 63-64: await page.goto(self.url, timeout=60000)
Goto == Inside("goto", "check66", "goto")

Check66 == CheckFlag("check66", "wait")

\* Lines 71-73: await page.wait_for_selector(...); await asyncio.sleep(2)
WaitSelector == Inside("wait", "check75", "wait_for_selector")

Check75 == CheckFlag("check75", "scroll_init")

Check83 == CheckFlag("check83", "extract_enter")

Check91 == CheckFlag("check91", "check98")

\* Line 98: if products and self.is_running
Check98 ==
    /\ pc = "check98"
    /\ pc' = IF products # <<>> /\ is_running THEN "download_enter" ELSE "check101"
    /\ seen' = IF products # <<>> /\ ~is_running THEN seen \cup {"check98"} ELSE seen
    /\ UNCHANGED <<ui, is_running, thr_products, browser, queue, loc, exc,
                   run, faults, emitted, entered, origin, fetched>>

\* Mutant of MayEmitResult: the result is emitted whatever the flag says.
MayEmitResultAlways == TRUE

\* Line 101: if self.is_running
MayEmitResult == is_running

Check101 ==
    /\ pc = "check101"
    /\ pc' = IF MayEmitResult THEN "emit_result" ELSE "crawl_finally"
    /\ seen' = IF is_running THEN seen ELSE seen \cup {"check101"}
    /\ UNCHANGED <<ui, is_running, thr_products, browser, queue, loc, exc,
                   run, faults, emitted, entered, origin, fetched>>

\* Lines 102-103: self.products = products; self.result.emit(products)
EmitResult ==
    /\ pc = "emit_result"
    /\ thr_products' = products
    /\ Emit("result", products)
    /\ pc' = "crawl_finally"
    /\ UNCHANGED <<ui, is_running, browser, loc, exc,
                   run, faults, entered, origin, seen, fetched>>

\* Lines 105-106: except Exception as e: if self.is_running
CrawlExcept ==
    /\ pc = "crawl_except"
    /\ pc' = IF is_running THEN "emit_page_error" ELSE "crawl_finally"
    /\ UNCHANGED <<ui, is_running, thr_products, browser, queue, loc, exc, hist>>

\* Line 107: self.error.emit(f"페이지 처리 오류: {str(e)}")
EmitPageError ==
    /\ pc = "emit_page_error"
    /\ Emit("error", <<"page error: ", exc>>)
    /\ pc' = "crawl_finally"
    /\ UNCHANGED <<ui, is_running, thr_products, browser, loc, exc,
                   run, faults, entered, origin, seen, fetched>>

\* Lines 108-109: finally: await browser.close(); crawl returns.
CrawlFinally ==
    /\ pc = "crawl_finally"
    /\ browser' = "closed"
    /\ pc' = "run_finally"
    /\ UNCHANGED <<ui, is_running, thr_products, queue, loc, exc, hist>>

\* ------------------------------------------------------ CrawlerThread.run
\* Lines 38-39: except Exception as e: if self.is_running
RunExcept ==
    /\ pc = "run_except"
    /\ pc' = IF is_running THEN "emit_run_error" ELSE "run_finally"
    /\ UNCHANGED <<ui, is_running, thr_products, browser, queue, loc, exc, hist>>

\* Line 40: self.error.emit(f"크롤링 오류: {str(e)}")
EmitRunError ==
    /\ pc = "emit_run_error"
    /\ Emit("error", <<"crawl error: ", exc>>)
    /\ pc' = "run_finally"
    /\ UNCHANGED <<ui, is_running, thr_products, browser, loc, exc,
                   run, faults, entered, origin, seen, fetched>>

\* Mutant of RunFinally: the thread ends without emitting finished.
RunFinallySilent ==
    /\ pc = "run_finally"
    /\ pc' = "done"
    /\ UNCHANGED <<ui, is_running, thr_products, browser, queue, loc, exc, hist>>

\* Lines 41-42: finally: self.finished.emit(); the thread ends.
RunFinally ==
    /\ pc = "run_finally"
    /\ Emit("finished", <<>>)
    /\ pc' = "done"
    /\ UNCHANGED <<ui, is_running, thr_products, browser, loc, exc,
                   run, faults, entered, origin, seen, fetched>>

\* ------------------------------------------ CrawlerThread.scroll_gradually
\* Lines 113-119; heights: what the page may report.
ScrollInit(heights) ==
    /\ pc = "scroll_init"
    /\ \/ /\ \E h \in heights : last_height' = h
          /\ current_position' = 0
          /\ scroll_count' = 0
          /\ new_height' = 0
          /\ pc' = "scroll_loop"
          /\ UNCHANGED <<exc, faults>>
       \/ /\ Raise("scroll", "crawl_except")
          /\ UNCHANGED scroll
    /\ UNCHANGED <<ui, is_running, thr_products, browser, queue,
                   products, product_links, idx,
                   run, emitted, entered, origin, seen, fetched>>

\* Mutant of ScrollGuard: the loop has no iteration cap.
ScrollGuardNoCap == is_running

\* Mutant of ScrollGuard: the loop does not look at the flag.
ScrollGuardNoFlag == scroll_count < max_scrolls

\* Line 120: while scroll_count < max_scrolls and self.is_running
ScrollGuard == scroll_count < max_scrolls /\ is_running

\* The loop test: enter the body, or leave scroll_gradually.
ScrollLoop ==
    /\ pc = "scroll_loop"
    /\ IF ScrollGuard
       THEN /\ pc' = "scroll_body"
            /\ entered' = entered \cup {"scroll"}
            /\ UNCHANGED <<scroll, seen>>
       ELSE /\ pc' = "check83"
            /\ last_height' = 0 /\ current_position' = 0 /\ scroll_count' = 0
            /\ new_height' = 0
            /\ seen' = IF is_running THEN seen ELSE seen \cup {"scroll_loop"}
            /\ UNCHANGED entered
    /\ UNCHANGED <<ui, is_running, thr_products, browser, queue,
                   products, product_links, idx, exc,
                   run, faults, emitted, origin, fetched>>

\* Mutant of ScrollBody: the loop breaks as soon as the position reaches the
\* height, whether or not the height has changed.
ScrollBodyBreaksOnReach(heights) ==
    /\ pc = "scroll_body"
    /\ \/ \E h \in heights :
             LET position == current_position + scroll_step IN
             /\ new_height' = h
             /\ scroll_count' = scroll_count + 1
             /\ IF position >= h
                THEN IF TRUE
                     THEN /\ pc' = "scroll_return"
                          /\ current_position' = position
                          /\ UNCHANGED last_height
                     ELSE /\ pc' = "scroll_loop"
                          /\ last_height' = h
                          /\ current_position' = 0
                ELSE /\ pc' = "scroll_loop"
                     /\ current_position' = position
                     /\ UNCHANGED last_height
             /\ UNCHANGED <<exc, faults>>
       \/ /\ Raise("scroll", "crawl_except")
          /\ last_height' = 0 /\ current_position' = 0 /\ scroll_count' = 0
          /\ new_height' = 0
    /\ UNCHANGED <<ui, is_running, thr_products, browser, queue,
                   products, product_links, idx,
                   run, emitted, entered, origin, seen, fetched>>

\* Lines 121-134: one scroll step. The position advances, the height is read
\* again; break when the position has reached a height equal to the recorded
\* one, restart from 0 when it has reached a different height.
ScrollBody(heights) ==
    /\ pc = "scroll_body"
    /\ \/ \E h \in heights :
             LET position == current_position + scroll_step IN
             /\ new_height' = h
             /\ scroll_count' = scroll_count + 1
             /\ IF position >= h
                THEN IF h = last_height
                     THEN /\ pc' = "scroll_return"
                          /\ current_position' = position
                          /\ UNCHANGED last_height
                     ELSE /\ pc' = "scroll_loop"
                          /\ last_height' = h
                          /\ current_position' = 0
                ELSE /\ pc' = "scroll_loop"
                     /\ current_position' = position
                     /\ UNCHANGED last_height
             /\ UNCHANGED <<exc, faults>>
       \/ /\ Raise("scroll", "crawl_except")
          /\ last_height' = 0 /\ current_position' = 0 /\ scroll_count' = 0
          /\ new_height' = 0
    /\ UNCHANGED <<ui, is_running, thr_products, browser, queue,
                   products, product_links, idx,
                   run, emitted, entered, origin, seen, fetched>>

\* After the break of line 132 scroll_gradually returns to crawl (line 81).
ScrollReturn ==
    /\ pc = "scroll_return"
    /\ pc' = "check83"
    /\ last_height' = 0 /\ current_position' = 0 /\ scroll_count' = 0
    /\ new_height' = 0
    /\ UNCHANGED <<ui, is_running, thr_products, browser, queue,
                   products, product_links, idx, exc, hist>>

\* ------------------------------------------ CrawlerThread.extract_products
\* Lines 138-145; doms: what query_selector_all may return.
ExtractEnter(doms) ==
    /\ pc = "extract_enter"
    /\ IF ~is_running
       THEN /\ pc' = "check91"
            /\ seen' = seen \cup {"extract_enter"}
            /\ UNCHANGED <<product_links, idx, exc, faults>>
       ELSE \/ /\ \E links \in doms : product_links' = links
               /\ idx' = 1
               /\ pc' = "extract_loop"
               /\ UNCHANGED <<exc, faults, seen>>
            \/ /\ Raise("query_selector_all", "crawl_except")
               /\ UNCHANGED <<product_links, idx, seen>>
    /\ products' = <<>>
    /\ UNCHANGED <<ui, is_running, thr_products, browser, queue, scroll,
                   run, emitted, entered, origin, fetched>>

\* Lines 147-149: next anchor, unless the flag is down.
ExtractGuard == idx <= Len(product_links) /\ is_running

ExtractLoop ==
    /\ pc = "extract_loop"
    /\ IF ExtractGuard
       THEN /\ pc' = "extract_body"
            /\ entered' = entered \cup {"extract"}
            /\ UNCHANGED seen
       ELSE /\ pc' = "check91"
            /\ seen' = IF idx <= Len(product_links)
                       THEN seen \cup {"extract_loop"} ELSE seen
            /\ UNCHANGED entered
    /\ UNCHANGED <<ui, is_running, thr_products, browser, queue, loc, exc,
                   run, faults, emitted, origin, fetched>>

\* Mutant of ExtractBody: an exception in the loop body leaves the loop for
\* crawl's handler.
ExtractBodyEscalates(dates) ==
    /\ pc = "extract_body"
    /\ \/ /\ \E d \in dates :
                products' = Append(products, ExtractProduct(product_links[idx], d))
          /\ origin' = Append(origin, idx)
          /\ idx' = idx + 1
          /\ pc' = "extract_loop"
          /\ UNCHANGED <<exc, faults>>
       \/ /\ Raise("extract_item", "crawl_except")
          /\ UNCHANGED <<products, origin, idx>>
    /\ UNCHANGED <<ui, is_running, thr_products, browser, queue,
                   product_links, scroll,
                   run, emitted, entered, seen, fetched>>

\* Mutant of ExtractBody: the record is put in front of the list.
ExtractBodyPrepends(dates) ==
    /\ pc = "extract_body"
    /\ \/ /\ \E d \in dates :
                products' = <<ExtractProduct(product_links[idx], d)>> \o products
          /\ origin' = <<idx>> \o origin
          /\ UNCHANGED faults
       \/ /\ faults' = faults \cup {"extract_item"}
          /\ UNCHANGED <<products, origin>>
    /\ idx' = idx + 1
    /\ pc' = "extract_loop"
    /\ UNCHANGED <<ui, is_running, thr_products, browser, queue,
                   product_links, scroll, exc,
                   run, emitted, entered, seen, fetched>>

\* Lines 151-196: the record is appended, or an exception drops the anchor.
ExtractBody(dates) ==
    /\ pc = "extract_body"
    /\ \/ /\ \E d \in dates :
                products' = Append(products, ExtractProduct(product_links[idx], d))
          /\ origin' = Append(origin, idx)
          /\ UNCHANGED faults
       \/ /\ faults' = faults \cup {"extract_item"}
          /\ UNCHANGED <<products, origin>>
    /\ idx' = idx + 1
    /\ pc' = "extract_loop"
    /\ UNCHANGED <<ui, is_running, thr_products, browser, queue,
                   product_links, scroll, exc,
                   run, emitted, entered, seen, fetched>>

\* ------------------------------------------ CrawlerThread.download_images
\* Lines 202-204: the thumbnails directory.
DownloadEnter ==
    /\ pc = "download_enter"
    /\ \/ pc' = "download_loop" /\ idx' = 1 /\ UNCHANGED <<exc, faults>>
       \/ Raise("makedirs", "crawl_except") /\ UNCHANGED idx
    /\ UNCHANGED <<ui, is_running, thr_products, browser, queue,
                   products, product_links, scroll,
                   run, emitted, entered, origin, seen, fetched>>

\* Lines 206-208: next product, unless the flag is down.
DownloadGuard == idx <= Len(products) /\ is_running

DownloadLoop ==
    /\ pc = "download_loop"
    /\ IF DownloadGuard
       THEN /\ pc' = "download_body"
            /\ entered' = entered \cup {"download"}
            /\ UNCHANGED seen
       ELSE /\ pc' = "check101"
            /\ seen' = IF idx <= Len(products)
                       THEN seen \cup {"download_loop"} ELSE seen
            /\ UNCHANGED entered
    /\ UNCHANGED <<ui, is_running, thr_products, browser, queue, loc, exc,
                   run, faults, emitted, origin, fetched>>

\* Mutant of DownloadBody: a request or write that raises ends the loop.
DownloadBodyAborts ==
    /\ pc = "download_body"
    /\ IF HasThumbnail(products[idx])
       THEN \/ /\ products' = [products EXCEPT ![idx] =
                                    WithLocal(@, Filename(idx, @.name))]
               /\ fetched' = Append(fetched, <<idx, NormalizeUrl(products[idx].thumbnail), "ok">>)
               /\ pc' = "download_loop"
               /\ UNCHANGED faults
            \/ /\ fetched' = Append(fetched, <<idx, NormalizeUrl(products[idx].thumbnail), "status">>)
               /\ pc' = "download_loop"
               /\ UNCHANGED <<products, faults>>
            \/ /\ fetched' = Append(fetched, <<idx, NormalizeUrl(products[idx].thumbnail), "error">>)
               /\ faults' = faults \cup {"download_item"}
               /\ pc' = "check101"
               /\ UNCHANGED products
       ELSE pc' = "download_loop" /\ UNCHANGED <<products, fetched, faults>>
    /\ idx' = idx + 1
    /\ UNCHANGED <<ui, is_running, thr_products, browser, queue,
                   product_links, scroll, exc,
                   run, emitted, entered, origin, seen>>

\* Mutant of DownloadBody: the local path is recorded whatever the status.
DownloadBodyMarksAlways ==
    /\ pc = "download_body"
    /\ IF HasThumbnail(products[idx])
       THEN \/ /\ products' = [products EXCEPT ![idx] =
                                    WithLocal(@, Filename(idx, @.name))]
               /\ \E o \in {"ok", "status"} :
                     fetched' = Append(fetched, <<idx, NormalizeUrl(products[idx].thumbnail), o>>)
               /\ UNCHANGED faults
            \/ /\ fetched' = Append(fetched, <<idx, NormalizeUrl(products[idx].thumbnail), "error">>)
               /\ faults' = faults \cup {"download_item"}
               /\ UNCHANGED products
       ELSE UNCHANGED <<products, fetched, faults>>
    /\ idx' = idx + 1
    /\ pc' = "download_loop"
    /\ UNCHANGED <<ui, is_running, thr_products, browser, queue,
                   product_links, scroll, exc,
                   run, emitted, entered, origin, seen>>

\* Lines 210-230: one product's image. A product without a thumbnail is
\* passed over; otherwise the request answers 200 and the file is written
\* ("ok"), or answers another status ("status"), or the request or the write
\* raises ("error"). fetched records <<idx, url requested, outcome>>.
DownloadBody ==
    /\ pc = "download_body"
    /\ IF HasThumbnail(products[idx])
       THEN \/ /\ products' = [products EXCEPT ![idx] =
                                    WithLocal(@, Filename(idx, @.name))]
               /\ fetched' = Append(fetched, <<idx, NormalizeUrl(products[idx].thumbnail), "ok">>)
               /\ UNCHANGED faults
            \/ /\ fetched' = Append(fetched, <<idx, NormalizeUrl(products[idx].thumbnail), "status">>)
               /\ UNCHANGED <<products, faults>>
            \/ /\ fetched' = Append(fetched, <<idx, NormalizeUrl(products[idx].thumbnail), "error">>)
               /\ faults' = faults \cup {"download_item"}
               /\ UNCHANGED products
       ELSE UNCHANGED <<products, fetched, faults>>
    /\ idx' = idx + 1
    /\ pc' = "download_loop"
    /\ UNCHANGED <<ui, is_running, thr_products, browser, queue,
                   product_links, scroll, exc,
                   run, emitted, entered, origin, seen>>

\* -------------------------------------------------------------- MainWindow
\* Mutant of StartCrawling: the start button stays enabled during the run.
StartCrawlingKeepsStart ==
    /\ start_btn
    /\ run < MaxRuns
    /\ \/ UNCHANGED vars
       \/ /\ start_btn' = TRUE
          /\ stop_btn' = TRUE
          /\ export_btn' = FALSE
          /\ result_table' = <<>>
          /\ sheet' = NoSheet
          /\ pc' = "run"
          /\ is_running' = TRUE
          /\ thr_products' = <<>>
          /\ browser' = "none"
          /\ products' = <<>> /\ product_links' = <<>> /\ idx' = 0
          /\ exc' = ""
          /\ run' = run + 1
          /\ faults' = {} /\ emitted' = <<>> /\ entered' = {}
          /\ origin' = <<>> /\ seen' = {} /\ fetched' = <<>>
          /\ UNCHANGED <<win_products, queue, scroll>>

\* start_crawling, lines 301-321. The button is clickable while enabled; an
\* empty URL only shows a warning.
StartCrawling ==
    /\ start_btn
    /\ run < MaxRuns
    /\ \/ UNCHANGED vars
       \/ /\ start_btn' = FALSE
          /\ stop_btn' = TRUE
          /\ export_btn' = FALSE
          /\ result_table' = <<>>
          /\ sheet' = NoSheet
          /\ pc' = "run"
          /\ is_running' = TRUE
          /\ thr_products' = <<>>
          /\ browser' = "none"
          /\ products' = <<>> /\ product_links' = <<>> /\ idx' = 0
          /\ exc' = ""
          /\ run' = run + 1
          /\ faults' = {} /\ emitted' = <<>> /\ entered' = {}
          /\ origin' = <<>> /\ seen' = {} /\ fetched' = <<>>
          /\ UNCHANGED <<win_products, queue, scroll>>

\* CrawlerThread.stop, lines 30-33.
Stop == is_running' = FALSE

\* stop_crawling, lines 323-327.
StopCrawling ==
    /\ stop_btn
    /\ IF pc # "idle" /\ IsThreadRunning
       THEN Stop /\ stop_btn' = FALSE
       ELSE UNCHANGED <<is_running, stop_btn>>
    /\ UNCHANGED <<start_btn, export_btn, win_products, result_table, sheet,
                   pc, thr_products, browser, queue, loc, exc, hist>>

\* The rows display_results puts in the table, lines 339-344.
TableRows(ps) ==
    [i \in 1..Len(ps) |->
        [no |-> <<ToString(i)>>,
         name |-> Get(ps[i], "name", Empty),
         price |-> Get(ps[i], "price", Empty),
         thumbnail |-> Get(ps[i], "thumbnail", Empty),
         local |-> Get(ps[i], "thumbnail_local", Empty)]]

\* display_results, lines 335-347: the slot of the result signal.
DisplayResults ==
    /\ queue # <<>> /\ Head(queue).sig = "result"
    /\ win_products' = Head(queue).arg
    /\ result_table' = TableRows(Head(queue).arg)
    /\ queue' = Tail(queue)
    /\ UNCHANGED <<start_btn, stop_btn, export_btn, sheet,
                   pc, is_running, thr_products, browser, loc, exc, hist>>

\* show_error, lines 355-357: the slot of the error signal (log, dialog).
ShowError ==
    /\ queue # <<>> /\ Head(queue).sig = "error"
    /\ queue' = Tail(queue)
    /\ UNCHANGED <<ui, pc, is_running, thr_products, browser, loc, exc, hist>>

\* crawling_finished, lines 349-353: the slot of the finished signal.
CrawlingFinished ==
    /\ queue # <<>> /\ Head(queue).sig = "finished"
    /\ start_btn' = TRUE
    /\ stop_btn' = FALSE
    /\ export_btn' = IF win_products # <<>> THEN TRUE ELSE export_btn
    /\ queue' = Tail(queue)
    /\ UNCHANGED <<win_products, result_table, sheet,
                   pc, is_running, thr_products, browser, loc, exc, hist>>

\* The file at a record's thumbnail_local when export_to_excel reaches its
\* row, lines 414-427: there and readable by the codec ("decodable"), there
\* but opening, converting or saving it raises ("undecodable"), or not there
\* ("missing"). Without a local path no file is looked for.
ImageOutcomes(product) ==
    IF Get(product, "thumbnail_local", Empty) # Empty
    THEN {"decodable", "undecodable", "missing"}
    ELSE {"missing"}

\* The header cells of row 1, lines 376-380 (the six labels, in English).
Headers == <<"no", "image", "name", "price", "thumbnail", "local">>

\* Mutant of SheetRows: the image is embedded whenever a local path is recorded.
SheetRowsNoFileTest(ps, file) ==
    [i \in 1..Len(ps) |->
        LET local_path == Get(ps[i], "thumbnail_local", Empty)
            embedded == Truthy(local_path)
        IN [row_num |-> i + 1,
            index |-> i,
            name |-> Get(ps[i], "name", Empty),
            price |-> Get(ps[i], "price", Empty),
            thumbnail |-> Get(ps[i], "thumbnail", Empty),
            local |-> local_path,
            file |-> file[i],
            image |-> embedded,
            height |-> IF embedded THEN 75 ELSE 30]]

\* The data rows export_to_excel writes, lines 391-462. The image is added
\* and the row made 75 high when the local path is set, its file exists
\* (line 414) and the codec does not raise (lines 415-457); else 30.
SheetRows(ps, file) ==
    [i \in 1..Len(ps) |->
        LET local_path == Get(ps[i], "thumbnail_local", Empty)
            embedded == IF Truthy(local_path) /\ file[i] # "missing"
                        THEN file[i] # "undecodable"
                        ELSE FALSE
        IN [row_num |-> i + 1,
            index |-> i,
            name |-> Get(ps[i], "name", Empty),
            price |-> Get(ps[i], "price", Empty),
            thumbnail |-> Get(ps[i], "thumbnail", Empty),
            local |-> local_path,
            file |-> file[i],
            image |-> embedded,
            height |-> IF embedded THEN 75 ELSE 30]]

\* export_to_excel, lines 359-482. Without products or without a file name
\* nothing is written; wb.save may raise, and then no workbook exists.
\* (The temporary image files of lines 431-475 are left out of the state.)
ExportToExcel ==
    /\ export_btn
    /\ \/ UNCHANGED vars
       \/ /\ win_products # <<>>
          /\ \E file \in [1..Len(win_products) -> {"decodable", "undecodable", "missing"}] :
                /\ \A i \in 1..Len(win_products) :
                      file[i] \in ImageOutcomes(win_products[i])
                /\ sheet' = [saved |-> TRUE, header |-> Headers,
                             rows |-> SheetRows(win_products, file)]
          /\ UNCHANGED <<start_btn, stop_btn, export_btn, win_products,
                         result_table, pc, is_running, thr_products, browser,
                         queue, loc, exc, hist>>

\* ------------------------------------------------------ the specification
\* The worker's steps on a page whose anchors are one of doms.
WorkerOn(doms) ==
    \/ CrawlEnter \/ EnterPlaywright \/ Launch \/ NewContext \/ NewPage
    \/ Check59 \/ Goto \/ Check66 \/ WaitSelector \/ Check75
    \/ ScrollInit(PageHeights) \/ ScrollLoop \/ ScrollBody(PageHeights) \/ ScrollReturn
    \/ Check83 \/ ExtractEnter(doms) \/ ExtractLoop \/ ExtractBody(Dates)
    \/ Check91 \/ Check98 \/ DownloadEnter \/ DownloadLoop \/ DownloadBody
    \/ Check101 \/ EmitResult \/ CrawlExcept \/ EmitPageError \/ CrawlFinally
    \/ RunExcept \/ EmitRunError \/ RunFinally

Worker == WorkerOn(Doms)

Window ==
    \/ StartCrawling \/ StopCrawling \/ DisplayResults \/ ShowError
    \/ CrawlingFinished \/ ExportToExcel

Next == Worker \/ Window

Spec == Init /\ [][Next]_vars

\* Pages of at most one anchor: the paths of a run do not depend on how
\* many anchors the page has.
LiveDoms == SeqsUpTo(AnchorKinds, 1)

WorkerLive == WorkerOn(LiveDoms)

NextLive == WorkerLive \/ Window

\* The worker thread keeps being scheduled until run returns (every awaited
\* call has a timeout or is bounded), and the window's event loop keeps
\* delivering queued signals to their slots.
Fairness ==
    /\ WF_vars(WorkerLive)
    /\ WF_vars(DisplayResults) /\ WF_vars(ShowError) /\ WF_vars(CrawlingFinished)

SpecLive == Init /\ [][NextLive]_vars /\ Fairness

\* ------------------------------------------ scroll_gradually on any page
\* A height the scroll position never reaches within max_scrolls steps.
FarHeight == max_scrolls * scroll_step + 1

AllHeights == PageHeights \cup {FarHeight}

\* The first run's worker about to execute the step `at` of crawl's try
\* block: the window has started it, the browser is open, nothing is emitted.
WorkerAt(at) ==
    /\ start_btn = FALSE /\ stop_btn = TRUE /\ export_btn = FALSE
    /\ win_products = <<>> /\ result_table = <<>> /\ sheet = NoSheet
    /\ pc = at /\ is_running = TRUE /\ thr_products = <<>>
    /\ browser = "open" /\ queue = <<>>
    /\ products = <<>> /\ product_links = <<>> /\ idx = 0
    /\ last_height = 0 /\ current_position = 0 /\ scroll_count = 0 /\ new_height = 0
    /\ exc = "" /\ run = 1 /\ faults = {} /\ emitted = <<>>
    /\ entered = {} /\ origin = <<>> /\ seen = {} /\ fetched = <<>>

InitScroll == WorkerAt("scroll_init")

NextScroll ==
    \/ ScrollInit(AllHeights) \/ ScrollLoop \/ ScrollBody(AllHeights) \/ ScrollReturn
    \/ StopCrawling

SpecScroll == InitScroll /\ [][NextScroll]_vars

\* ------------------------------------------ extract_products on any anchor
AttrValues == {None, Empty, <<"/", "i", "/", "a">>}
TextValues == {Empty, <<"A">>}

\* data-log-body attributes: absent, empty, and payloads whose price is a
\* string, a number, null or an empty string, a truncated payload, a payload
\* naming the key only as a value, a bare JSON string, and one without the key.
DataLogs ==
    {None, Empty,
     <<"{", QUOT, PriceKey, QUOT, ":", QUOT, "9,900", QUOT, "}">>,
     <<"{", QUOT, PriceKey, QUOT, ":", "9900", "}">>,
     <<"{", QUOT, PriceKey, QUOT, ":", "null", "}">>,
     <<"{", QUOT, PriceKey, QUOT, ":", QUOT, QUOT, "}">>,
     <<"{", QUOT, PriceKey, QUOT, ":", QUOT, "9,900", QUOT>>,
     <<"{", QUOT, "x", QUOT, ":", QUOT, PriceKey, QUOT, "}">>,
     <<QUOT, PriceKey, QUOT>>,
     <<"{", QUOT, "x", QUOT, ":", QUOT, "1", QUOT, "}">>}

\* Every combination of present, absent and empty elements and attributes.
AllAnchors ==
    {a \in [href : AttrValues, data_log : DataLogs,
            has_name : BOOLEAN, name_text : TextValues,
            has_price : BOOLEAN, price_text : TextValues,
            has_img : BOOLEAN, src : AttrValues,
            data_src : AttrValues, data_original : AttrValues] :
        /\ ~a.has_name => a.name_text = Empty
        /\ ~a.has_price => a.price_text = Empty
        /\ ~a.has_img => a.src = None /\ a.data_src = None /\ a.data_original = None}

\* An anchor without a price element whose data-log-body carries the price.
AnchorPayload ==
    [AnchorBare EXCEPT !.href = <<"/", "p", "3">>,
                       !.data_log = <<"{", QUOT, PriceKey, QUOT, ":", "9900", "}">>]

\* The three kinds of anchor (price element, payload only, neither), in
\* every order.
PriceOrders ==
    {d \in [1..3 -> {AnchorFull, AnchorPayload, AnchorBare}] :
        \A i, j \in 1..3 : i # j => d[i] # d[j]}

InitExtract == WorkerAt("extract_enter")

NextExtract ==
    \/ ExtractEnter(SeqsUpTo(AllAnchors, 1) \cup PriceOrders) \/ ExtractLoop \/ ExtractBody(Dates)
    \/ StopCrawling

SpecExtract == InitExtract /\ [][NextExtract]_vars

\* ------------------------------------------- download_images on any URL
\* Values of the image's src: protocol-relative, root-relative, absolute,
\* relative, the bare prefixes themselves, and no usable value.
UrlValues ==
    {<<"/", "/", "cdn", "/", "a">>, <<"/", "i", "/", "a">>,
     <<"https:", "/", "/", "x", "/", "a">>, <<"i", "/", "a">>,
     <<"/", "/">>, <<"/">>, NA, Empty, None}

ThumbAnchors == {[AnchorFull EXCEPT !.src = u] : u \in UrlValues}

\* The first run's worker about to execute download_images (line 99) on the
\* records extracted from some anchors.
InitDownload ==
    \E links \in SeqsUpTo(ThumbAnchors, MaxAnchors) \ {<<>>} : \E d \in Dates :
        /\ start_btn = FALSE /\ stop_btn = TRUE /\ export_btn = FALSE
        /\ win_products = <<>> /\ result_table = <<>> /\ sheet = NoSheet
        /\ pc = "download_enter" /\ is_running = TRUE /\ thr_products = <<>>
        /\ browser = "open" /\ queue = <<>>
        /\ product_links = links
        /\ products = [i \in 1..Len(links) |-> ExtractProduct(links[i], d)]
        /\ idx = Len(links) + 1
        /\ last_height = 0 /\ current_position = 0 /\ scroll_count = 0 /\ new_height = 0
        /\ exc = "" /\ run = 1 /\ faults = {} /\ emitted = <<>>
        /\ entered = {"scroll", "extract"}
        /\ origin = [i \in 1..Len(links) |-> i]
        /\ seen = {} /\ fetched = <<>>

NextDownload ==
    \/ DownloadEnter \/ DownloadLoop \/ DownloadBody
    \/ StopCrawling

SpecDownload == InitDownload /\ [][NextDownload]_vars

\* ================================================================= claims
\* Signals of kind sig among those the current worker has emitted.
Emitted(sig) == SelectSeq(emitted, LAMBDA m : m.sig = sig)

\* crawl has returned or raised: the worker is back in run, or has ended.
CrawlLeft == pc \in {"run_except", "emit_run_error", "run_finally", "done"}

\* C1: whenever crawl has been left with the browser launched, the browser
\* has been closed, whichever way crawl ended.
C1_BrowserReleased == (CrawlLeft /\ browser # "none") => browser = "closed"

\* The checks that can find the flag down once a product may have been extracted.
LateChecks == {"extract_loop", "check91", "check98", "download_loop", "check101"}

\* The worker found the flag down with at least one product extracted.
CancelledWithProducts == seen \cap LateChecks # {} /\ products # <<>>

C4_ScrollBounded ==
    [][/\ scroll_count <= max_scrolls
       /\ pc = "scroll_body" => scroll_count < max_scrolls
       /\ (pc = "scroll_body" /\ pc' = "scroll_loop") =>
              scroll_count' = scroll_count + 1
       /\ (pc = "scroll_loop" /\ scroll_count = max_scrolls /\ pc' # pc) =>
              pc' = "check83"]_vars

\* The cap is reached with the flag up, on a page whose height the position
\* never reaches.
C4_Witness ==
    /\ pc = "scroll_loop" /\ is_running
    /\ scroll_count = max_scrolls
    /\ current_position = max_scrolls * scroll_step

ProductFields == {"url", "name", "price", "thumbnail", "registered_date"}

\* C5: every field of every appended record is a non-empty string.
C5_FieldsNonEmptyStrings ==
    \A i \in 1..Len(products) : \A f \in ProductFields :
        /\ f \in DOMAIN products[i]
        /\ IsPyStr(products[i][f])
        /\ products[i][f] # Empty

\* Failures caught by the handler of one item (lines 194-196, 229-230).
ItemFaults == {"extract_item", "download_item"}

\* Failures of initialization, navigation and the selector wait.
StartupFaults == {"playwright", "launch", "new_context", "new_page", "goto",
                  "wait_for_selector"}

\* A run whose only failures are item failures, never cancelled, ends
\* Completed: one result, then finished, and no error.
ItemFaultsStayLocal ==
    (pc = "done" /\ is_running /\ faults \subseteq ItemFaults) =>
        /\ Len(emitted) = 2
        /\ emitted[1].sig = "result" /\ emitted[1].arg = products
        /\ emitted[2].sig = "finished"

\* C6 as stated: item failures never escalate, and only failures of
\* initialization, navigation or the selector wait produce an error.
C6_OnlyStartupFaultsEscalate ==
    /\ ItemFaultsStayLocal
    /\ Emitted("error") # <<>> => faults \cap StartupFaults # {}

\* C6 amended: item failures never escalate; an error notification is
\* produced only by a failure outside the per-item handlers, which besides
\* initialization, navigation and the selector wait covers scrolling, the
\* anchor query and the creation of the thumbnails directory.
C6_ItemFaultsNeverEscalate ==
    /\ ItemFaultsStayLocal
    /\ Emitted("error") # <<>> => faults \ ItemFaults # {}
    /\ faults \subseteq ItemFaults =>
          pc \notin {"crawl_except", "emit_page_error", "run_except", "emit_run_error"}

C6_Witness ==
    /\ pc = "done" /\ is_running
    /\ faults = ItemFaults
    /\ Len(products) = 1
    /\ Emitted("result") # <<>>

\* The failures C7 is about.
FatalSites == {"launch", "goto", "wait_for_selector"}

\* C7: after a failure of launch, navigation or the selector wait no scroll,
\* extraction or download step is taken and no result is emitted; if the run
\* was not cancelled it ends with exactly one error notification, carrying
\* the exception's message, followed by finished.
C7_FatalFailureReported ==
    faults \cap FatalSites # {} =>
        /\ entered = {} /\ products = <<>> /\ fetched = <<>>
        /\ Emitted("result") = <<>>
        /\ Len(Emitted("error")) <= 1
        /\ (pc = "done" /\ is_running) =>
              /\ Len(emitted) = 2
              /\ emitted[1].sig = "error"
              /\ emitted[1].arg[2] = exc /\ exc \in FatalSites
              /\ emitted[2].sig = "finished"

C7_Witness ==
    /\ pc = "done" /\ is_running
    /\ "wait_for_selector" \in faults
    /\ browser = "closed"
    /\ Len(Emitted("error")) = 1

LoopBodies == {"scroll_body", "extract_body", "download_body"}

\* C8: with the flag down the worker enters no loop body (a body it is
\* already in may complete), and the scroll loop's test leaves the function
\* without raising or emitting anything.
C8_NoStepAfterStop ==
    [][~is_running =>
         /\ pc' \in LoopBodies => pc' = pc
         /\ (pc = "scroll_loop" /\ pc' # pc) =>
               /\ pc' = "check83"
               /\ faults' = faults /\ exc' = exc /\ emitted' = emitted]_vars

\* The scroll loop was left because of the flag, and the next check has
\* ended crawl without any step of extraction.
C8_Witness ==
    /\ "scroll_loop" \in seen /\ "check83" \in seen
    /\ pc = "done"
    /\ entered = {"scroll"} /\ faults = {}

\* C9: export is enabled only when the current run delivered a non-empty
\* result set.
C9_ExportNeedsOwnResult ==
    export_btn =>
        \E i \in 1..Len(emitted) :
            emitted[i].sig = "result" /\ emitted[i].arg # <<>>

\* The fields of a record that extraction sets.
Core(p) == <<p.url, p.name, p.price, p.thumbnail, p.registered_date>>

\* Row r shows the fields of product p.
ShowsRecord(r, p) ==
    /\ r.name = Get(p, "name", Empty)
    /\ r.price = Get(p, "price", Empty)
    /\ r.thumbnail = Get(p, "thumbnail", Empty)
    /\ r.local = Get(p, "thumbnail_local", Empty)

\* C10: the records are the discovered anchors in their original relative
\* order, download keeps the order, and table row i and sheet row i+1 hold
\* the i-th record.
C10_OrderPreserved ==
    /\ Len(origin) = Len(products)
    /\ \A i \in 1..Len(products) :
          /\ origin[i] \in 1..Len(product_links)
          /\ \E d \in Dates :
                Core(products[i]) = Core(ExtractProduct(product_links[origin[i]], d))
    /\ \A i, j \in 1..Len(origin) : i < j => origin[i] < origin[j]
    /\ (Emitted("result") # <<>> /\ \A k \in 1..Len(queue) : queue[k].sig # "result")
          => win_products = products
    /\ result_table # <<>> =>
          /\ Len(result_table) = Len(win_products)
          /\ \A i \in 1..Len(result_table) :
                /\ result_table[i].no = <<ToString(i)>>
                /\ ShowsRecord(result_table[i], win_products[i])
    /\ sheet.saved =>
          /\ Len(sheet.rows) = Len(win_products)
          /\ \A i \in 1..Len(sheet.rows) :
                /\ sheet.rows[i].row_num = i + 1
                /\ sheet.rows[i].index = i
                /\ ShowsRecord(sheet.rows[i], win_products[i])

\* Two different anchors were extracted, downloaded, shown and exported.
C10_Witness ==
    /\ sheet.saved /\ Len(sheet.rows) = 2 /\ Len(result_table) = 2
    /\ product_links = <<AnchorBare, AnchorFull>>
    /\ sheet.rows[1].name = NA
    /\ sheet.rows[2].name = AnchorFull.name_text
    /\ sheet.rows[2].image

\* The worker is past the download loop.
PastDownload == pc \in {"check101", "emit_result", "crawl_finally", "run_finally", "done"}

\* The indices of the products whose thumbnail download_images fetches.
RECURSIVE WithThumbnail(_, _)
WithThumbnail(ps, i) ==
    IF i > Len(ps) THEN <<>>
    ELSE (IF HasThumbnail(ps[i]) THEN <<i>> ELSE <<>>) \o WithThumbnail(ps, i + 1)

\* C11: a failure on one product does not end the batch: unless the flag
\* is found down, once the loop is over every product has been attempted,
\* in list order, whatever requests failed.
C11_AllProductsAttempted ==
    (PastDownload /\ "download" \in entered /\ "download_loop" \notin seen) =>
        /\ idx = Len(products) + 1
        /\ [k \in 1..Len(fetched) |-> fetched[k][1]] = WithThumbnail(products, 1)

\* The first request raised and the second product was still fetched.
C11_Witness ==
    /\ PastDownload /\ "download_loop" \notin seen
    /\ Len(fetched) = 2
    /\ fetched[1][3] = "error" /\ fetched[2][3] = "ok"

\* The steps of download_images.
InDownload == pc \in {"download_enter", "download_loop", "download_body"}

\* C12: a step of download_images changes a record only by adding
\* thumbnail_local, and adds it exactly when the request answered 200 and
\* the file was written; every other key keeps its value, and a record
\* whose thumbnail is "N/A" or empty, whose request failed or answered
\* another status, gets no thumbnail_local.
C12_DownloadOnlyAddsLocal ==
    [][InDownload =>
         /\ Len(products') = Len(products)
         /\ \A i \in 1..Len(products) :
               LET p == products[i]
                   q == products'[i]
                   added == "thumbnail_local" \in DOMAIN q \ DOMAIN p
               IN /\ DOMAIN p \subseteq DOMAIN q
                  /\ DOMAIN q \subseteq DOMAIN p \cup {"thumbnail_local"}
                  /\ \A f \in DOMAIN p : q[f] = p[f]
                  /\ added <=> /\ pc = "download_body" /\ i = idx
                               /\ Len(fetched') = Len(fetched) + 1
                               /\ fetched'[Len(fetched')][3] = "ok"
                  /\ added => q.thumbnail_local = Filename(i, p.name)
                  /\ (p.thumbnail \in {NA, Empty, None}) => "thumbnail_local" \notin DOMAIN q
    ]_vars

\* One image was written and recorded, the next request answered another
\* status and its record has no local path.
C12_Witness ==
    /\ Len(fetched) = 2 /\ Len(products) = 2
    /\ fetched[1][3] = "ok" /\ fetched[2][3] = "status"
    /\ "thumbnail_local" \in DOMAIN products[1]
    /\ "thumbnail_local" \notin DOMAIN products[2]

\* The last_discount_price read from each data-log-body of DataLogs, written
\* out by hand: "N/A" where the attribute is absent or empty, where the
\* payload does not parse, is not an object, or has no such member.
PayloadPrice(data_log) ==
    CASE data_log = <<"{", QUOT, PriceKey, QUOT, ":", QUOT, "9,900", QUOT, "}">> -> <<"9,900">>
      [] data_log = <<"{", QUOT, PriceKey, QUOT, ":", "9900", "}">> -> PyInt("9900")
      [] data_log = <<"{", QUOT, PriceKey, QUOT, ":", "null", "}">> -> None
      [] data_log = <<"{", QUOT, PriceKey, QUOT, ":", QUOT, QUOT, "}">> -> Empty
      [] OTHER -> NA

\* C13: the price of every record is the text of the anchor's price element
\* if there is one, else the last_discount_price of the entity-encoded JSON
\* payload, else "N/A"; so anchors of the three kinds, in any order, give
\* the element text, the payload's value and "N/A" in that same order.
C13_PriceFallbackChain ==
    \A i \in 1..Len(products) :
        LET a == product_links[origin[i]] IN
        /\ a.has_price => products[i].price = a.price_text
        /\ ~a.has_price => products[i].price = PayloadPrice(a.data_log)

\* The three kinds in the order neither, payload, element, all extracted.
C13_Witness ==
    /\ product_links = <<AnchorBare, AnchorPayload, AnchorFull>>
    /\ Len(products) = 3
    /\ products[1].price = NA
    /\ products[2].price = PyInt("9900")
    /\ products[3].price = <<"9,900">>

\* C14: a thumbnail starting with "//" is requested as "https:" followed by
\* it, one starting with a single "/" as the site's origin followed by it,
\* any other unchanged; no URL falls under both rewritings, and the URL
\* requested is left as it is by a second normalization.
C14_UrlNormalized ==
    \A k \in 1..Len(fetched) :
        LET u == products[fetched[k][1]].thumbnail
            f == fetched[k][2]
            double == StartsWith(u, <<"/", "/">>)
            single == StartsWith(u, <<"/">>) /\ ~double
        IN /\ double => f = <<"https:">> \o u
           /\ single => f = <<"https:", "/", "/", "www.11st.co.kr">> \o u
           /\ (~double /\ ~single) => f = u
           /\ ~(f = <<"https:">> \o u /\ f = <<"https:", "/", "/", "www.11st.co.kr">> \o u)
           /\ ~StartsWith(f, <<"/">>)
           /\ NormalizeUrl(f) = f

\* A protocol-relative and a root-relative thumbnail were both requested.
C14_Witness ==
    /\ Len(fetched) = 2
    /\ products[1].thumbnail = <<"/", "/", "cdn", "/", "a">>
    /\ fetched[1][2] = <<"https:", "/", "/", "cdn", "/", "a">>
    /\ products[2].thumbnail = <<"/", "i", "/", "a">>
    /\ fetched[2][2] = <<"https:", "/", "/", "www.11st.co.kr", "/", "i", "/", "a">>

\* C15: a saved workbook has the header row and, for N products, exactly N
\* data rows, row i + 1 holding the i-th product; a row whose local image
\* exists and decodes has the image embedded and height 75, any other row
\* has no image and height 30, and is written all the same.
C15_SheetRows ==
    sheet.saved =>
        /\ Len(sheet.header) = 6
        /\ 1 + Len(sheet.rows) = Len(win_products) + 1
        /\ \A i \in 1..Len(win_products) :
              LET r == sheet.rows[i] IN
              /\ r.row_num = i + 1 /\ r.index = i
              /\ ShowsRecord(r, win_products[i])
              /\ IF "thumbnail_local" \in DOMAIN win_products[i] /\ r.file = "decodable"
                 THEN r.image /\ r.height = 75
                 ELSE ~r.image /\ r.height = 30

\* A workbook of two rows: the first image is embedded, the second product
\* has a local path whose file does not decode.
C15_Witness ==
    /\ sheet.saved /\ Len(sheet.rows) = 2
    /\ sheet.rows[1].image /\ sheet.rows[1].height = 75
    /\ sheet.rows[2].local # Empty /\ sheet.rows[2].file = "undecodable"
    /\ ~sheet.rows[2].image /\ sheet.rows[2].height = 30

\* C16: each scroll step advances the position by scroll_step; the loop
\* breaks exactly when the position has then reached the height just read
\* and that height equals the recorded one; when it has reached a height
\* that differs, the recorded height becomes that height and the position
\* restarts from 0; otherwise the position stays advanced and the recorded
\* height is kept. So a loop left below the cap with the flag up was left
\* by that break.
C16_BreakOnStableHeight ==
    [][/\ (pc = "scroll_body" /\ pc' \in {"scroll_loop", "scroll_return"}) =>
            LET position == current_position + 800
                reached == position >= new_height'
                same == new_height' = last_height
            IN /\ pc' = "scroll_return" <=> (reached /\ same)
               /\ pc' = "scroll_return" =>
                      current_position' = position /\ last_height' = last_height
               /\ (reached /\ ~same) =>
                      last_height' = new_height' /\ current_position' = 0
               /\ ~reached =>
                      current_position' = position /\ last_height' = last_height
       /\ (pc \in {"scroll_loop", "scroll_return"} /\ pc' = "check83"
              /\ scroll_count < max_scrolls /\ is_running) =>
            /\ pc = "scroll_return"
            /\ current_position >= new_height /\ new_height = last_height
    ]_vars

\* The height grew once (the position restarted from 0), then a full pass
\* found it unchanged and the loop was left after four steps.
C16_Witness ==
    /\ pc = "scroll_return" /\ is_running
    /\ scroll_count = 4
    /\ last_height = 1600 /\ new_height = 1600 /\ current_position = 1600

\* A run's worker has ended: finished is the one and last signal of its kind.
FinishedOnceAndLast ==
    /\ Len(Emitted("finished")) = 1
    /\ emitted[Len(emitted)].sig = "finished"

\* C17: a run's worker emits finished exactly once, when it ends, whichever
\* way crawl ended, and emits nothing after it; so every started run is
\* followed by a moment where its finished has been handled, start is
\* enabled and stop is disabled.
C17_FinishedOnceThenReady ==
    /\ [](pc = "done" => FinishedOnceAndLast)
    /\ [](pc # "done" => Emitted("finished") = <<>>)
    /\ (pc = "run") ~> (pc = "done" /\ queue = <<>> /\ start_btn /\ ~stop_btn)

\* A run that failed has ended: error, then finished, both handled, and the
\* window is ready for the next run.
C17_Witness ==
    /\ pc = "done" /\ queue = <<>>
    /\ start_btn /\ ~stop_btn
    /\ Len(emitted) = 2 /\ emitted[1].sig = "error" /\ emitted[2].sig = "finished"

\* C18: whenever export is enabled, MainWindow.products is the list whose
\* rows the table shows.
C18_ExportMatchesTable == export_btn => result_table = TableRows(win_products)

\* C19: at most one worker is active: start is disabled from the start of a
\* worker until its finished has been handled, a CrawlerThread is created
\* only when none is running and nothing of the previous one is pending, and
\* the flag goes down only on a running worker (stop changes nothing when
\* no worker is running).
C19_OneWorker ==
    /\ [](start_btn => (~IsThreadRunning /\ queue = <<>>))
    /\ [][/\ run' # run => (~IsThreadRunning /\ queue = <<>> /\ ~start_btn')
          /\ (is_running /\ ~is_running') => (IsThreadRunning /\ pc' = pc)
          /\ (~IsThreadRunning /\ run' = run) => is_running' = is_running]_vars

\* The second worker, started after the first one's finished was handled,
\* is running with its flag down and start disabled.
C19_Witness ==
    /\ run = 2 /\ IsThreadRunning /\ ~is_running
    /\ ~start_btn /\ ~stop_btn

\* C20: once the flag is down the worker emits neither a result nor an
\* error for that run.
C20_SilentAfterStop ==
    [][(~is_running /\ run' = run) =>
          /\ Emitted("result")' = Emitted("result")
          /\ Emitted("error")' = Emitted("error")]_vars

====
